---- MODULE Spec2Model ----
(***************************************************************************)
(* Model of the Sprout lexer (src/sprout/lexer.py, src/sprout/token.py).   *)
(*                                                                         *)
(* A text is a sequence of Unicode code points (Python str); positions are *)
(* 0-based as in the source, so input_text[i] of the source is             *)
(* input_text[i + 1] here.  The state is the Lexer object's fields plus    *)
(* what the caller of next_token() observed (the returned token, or the    *)
(* exception that escaped the call).                                       *)
(***************************************************************************)
EXTENDS Integers, Sequences, FiniteSets, TLC

\* ------------------------------------------------------------------------
\* Characters
\* ------------------------------------------------------------------------

\* The printable ASCII characters in code point order, 32 (space) .. 126 (~).
Printable ==
  << " ", "!", "\"", "#", "$", "%", "&", "'", "(", ")", "*", "+", ",", "-", ".", "/",
     "0", "1", "2", "3", "4", "5", "6", "7", "8", "9", ":", ";", "<", "=", ">", "?",
     "@", "A", "B", "C", "D", "E", "F", "G", "H", "I", "J", "K", "L", "M", "N", "O",
     "P", "Q", "R", "S", "T", "U", "V", "W", "X", "Y", "Z", "[", "\\", "]", "^", "_",
     "BACKTICK", "a", "b", "c", "d", "e", "f", "g", "h", "i", "j", "k", "l", "m", "n", "o",
     "p", "q", "r", "s", "t", "u", "v", "w", "x", "y", "z", "{", "|", "}", "~" >>

\* ord(c) of a printable ASCII character.
Ord(c) == 31 + (CHOOSE i \in 1..Len(Printable) : Printable[i] = c)

\* A text from the list of its characters: Text(<<"f", "n">>) is "fn".
Text(cs) == [i \in 1..Len(cs) |-> Ord(cs[i])]

\* "\0", the character _read_char and _peek_char store past the end.
NUL == 0

\* "\t", "\n", "\r"
TAB == 9
NEWLINE == 10
CR == 13
QUOTE == Ord("\"")
BACKSLASH == Ord("\\")

\* self.ch in " \t\n\r" (ch is always one character)
IsWhitespace(c) == c \in {Ord(" "), TAB, NEWLINE, CR}

\* str.isalpha() of one character, for code points below 256.
IsAlpha(c) ==
  \/ c \in 65..90
  \/ c \in 97..122
  \/ c \in {170, 181, 186}
  \/ (c \in 192..255 /\ c \notin {215, 247})

\* str.isdigit() of one character, for code points below 256 (it accepts the
\* superscript digits 178, 179 and 185).
IsDigit(c) == c \in 48..57 \/ c \in {178, 179, 185}

\* ------------------------------------------------------------------------
\* token.py
\* ------------------------------------------------------------------------

TokenType ==
  ("ILLEGAL" :> "ILLEGAL") @@ ("EOF" :> "EOF") @@
  ("IDENT" :> "IDENT") @@ ("INT" :> "INT") @@ ("STRING" :> "STRING") @@
  ("ASSIGN" :> "=") @@ ("PLUS" :> "+") @@ ("MINUS" :> "-") @@ ("BANG" :> "!") @@
  ("ASTERISK" :> "*") @@ ("SLASH" :> "/") @@
  ("LT" :> "<") @@ ("GT" :> ">") @@ ("EQ" :> "==") @@ ("NOT_EQ" :> "!=") @@
  ("COMMA" :> ",") @@ ("SEMICOLON" :> ";") @@ ("COLON" :> ":") @@
  ("LPAREN" :> "(") @@ ("RPAREN" :> ")") @@ ("LBRACE" :> "{") @@ ("RBRACE" :> "}") @@
  ("LBRACKET" :> "[") @@ ("RBRACKET" :> "]") @@
  ("FUNCTION" :> "FUNCTION") @@ ("LET" :> "LET") @@ ("TRUE" :> "TRUE") @@
  ("FALSE" :> "FALSE") @@ ("IF" :> "IF") @@ ("ELSE" :> "ELSE") @@ ("RETURN" :> "RETURN")

KEYWORDS ==
  (Text(<<"f", "n">>) :> TokenType["FUNCTION"]) @@
  (Text(<<"l", "e", "t">>) :> TokenType["LET"]) @@
  (Text(<<"t", "r", "u", "e">>) :> TokenType["TRUE"]) @@
  (Text(<<"f", "a", "l", "s", "e">>) :> TokenType["FALSE"]) @@
  (Text(<<"i", "f">>) :> TokenType["IF"]) @@
  (Text(<<"e", "l", "s", "e">>) :> TokenType["ELSE"]) @@
  (Text(<<"r", "e", "t", "u", "r", "n">>) :> TokenType["RETURN"])

\* A mutation of lookup_ident: a keyword is recognised as a prefix of the run.
lookup_ident_prefix(ident) ==
  IF \E k \in DOMAIN KEYWORDS : Len(k) <= Len(ident) /\ SubSeq(ident, 1, Len(k)) = k
  THEN KEYWORDS[CHOOSE k \in DOMAIN KEYWORDS :
                  Len(k) <= Len(ident) /\ SubSeq(ident, 1, Len(k)) = k]
  ELSE TokenType["IDENT"]

\* KEYWORDS.get(ident, TokenType.IDENT)
lookup_ident(ident) ==
  IF ident \in DOMAIN KEYWORDS THEN KEYWORDS[ident] ELSE TokenType["IDENT"]

Token(type, literal, pos) == [type |-> type, literal |-> literal, position |-> pos]

\* What the caller holds before the first call, and after a call that raised.
NoToken == [type |-> "none", literal |-> <<>>, position |-> -1]

\* ------------------------------------------------------------------------
\* bytes(literal, "utf-8").decode("unicode_escape")
\* ------------------------------------------------------------------------

\* The UTF-8 bytes of one code point (code points below 65536).
Utf8Char(c) ==
  IF c < 128 THEN <<c>>
  ELSE IF c < 2048 THEN <<192 + (c \div 64), 128 + (c % 64)>>
  ELSE <<224 + (c \div 4096), 128 + ((c \div 64) % 64), 128 + (c % 64)>>

RECURSIVE Utf8Encode(_)
Utf8Encode(s) ==
  IF s = <<>> THEN <<>> ELSE Utf8Char(Head(s)) \o Utf8Encode(Tail(s))

IsOctal(c) == c \in 48..55
IsHex(c) == c \in 48..57 \/ c \in 65..70 \/ c \in 97..102
HexVal(c) == IF c \in 48..57 THEN c - 48 ELSE IF c \in 65..70 THEN c - 55 ELSE c - 87

\* The number of leading octal digits of b[i..], at most max.
RECURSIVE OctalRun(_, _, _)
OctalRun(b, i, max) ==
  IF max = 0 \/ i > Len(b) \/ ~IsOctal(b[i]) THEN 0 ELSE 1 + OctalRun(b, i + 1, max - 1)

\* The value of the n digits b[i..i+n-1] in the given base.
RECURSIVE DigitsVal(_, _, _, _)
DigitsVal(b, i, n, base) ==
  IF n = 0 THEN 0
  ELSE DigitsVal(b, i, n - 1, base) * base + HexVal(b[i + n - 1])

AllHex(b, i, n) == i + n - 1 <= Len(b) /\ \A j \in i..(i + n - 1) : IsHex(b[j])

\* The one-character escapes of the codec besides backslash-newline:
\* \\ \' \" \a \b \f \n \r \t \v
SimpleEscape ==
  (BACKSLASH :> BACKSLASH) @@ (Ord("'") :> Ord("'")) @@ (QUOTE :> QUOTE) @@
  (Ord("a") :> 7) @@ (Ord("b") :> 8) @@ (Ord("f") :> 12) @@ (Ord("n") :> NEWLINE) @@
  (Ord("r") :> CR) @@ (Ord("t") :> TAB) @@ (Ord("v") :> 11)

DecodeError == [ok |-> FALSE, out |-> <<>>]

Prepend(cs, r) == IF r.ok THEN [ok |-> TRUE, out |-> cs \o r.out] ELSE r

\* The codec "unicode_escape" with errors="strict" on the bytes b from index i
\* (1-based): the decoded text, or ok = FALSE where it raises UnicodeDecodeError.
\* A byte outside an escape decodes to the code point of the same value (Latin-1).
\* \N{name} needs the Unicode name table, which is not modelled: every \N is
\* taken as malformed, so the inputs never hold a well-formed \N{name}.
RECURSIVE UnicodeEscapeDecode(_, _)
UnicodeEscapeDecode(b, i) ==
  IF i > Len(b) THEN [ok |-> TRUE, out |-> <<>>]
  ELSE IF b[i] # BACKSLASH THEN Prepend(<<b[i]>>, UnicodeEscapeDecode(b, i + 1))
  ELSE IF i = Len(b) THEN DecodeError
  ELSE LET c == b[i + 1] IN
    CASE c = NEWLINE -> UnicodeEscapeDecode(b, i + 2)
      [] c \in DOMAIN SimpleEscape ->
           Prepend(<<SimpleEscape[c]>>, UnicodeEscapeDecode(b, i + 2))
      [] IsOctal(c) ->
           LET n == OctalRun(b, i + 1, 3) IN
             Prepend(<<DigitsVal(b, i + 1, n, 8)>>, UnicodeEscapeDecode(b, i + 1 + n))
      [] c = Ord("x") ->
           IF AllHex(b, i + 2, 2)
           THEN Prepend(<<DigitsVal(b, i + 2, 2, 16)>>, UnicodeEscapeDecode(b, i + 4))
           ELSE DecodeError
      [] c = Ord("u") ->
           IF AllHex(b, i + 2, 4)
           THEN Prepend(<<DigitsVal(b, i + 2, 4, 16)>>, UnicodeEscapeDecode(b, i + 6))
           ELSE DecodeError
      [] c = Ord("U") ->
           IF AllHex(b, i + 2, 8) /\ DigitsVal(b, i + 2, 8, 16) <= 1114111
           THEN Prepend(<<DigitsVal(b, i + 2, 8, 16)>>, UnicodeEscapeDecode(b, i + 10))
           ELSE DecodeError
      [] c = Ord("N") -> DecodeError
      [] OTHER -> Prepend(<<BACKSLASH, c>>, UnicodeEscapeDecode(b, i + 2))

\* ------------------------------------------------------------------------
\* lexer.py: the helpers on the scanner state L = [ch, position, read_position]
\* ------------------------------------------------------------------------

\* A mutation of _read_char: the cursor stops at the end of the input.
ReadCharClamped(text, L) ==
  IF L.read_position >= Len(text)
  THEN [ch |-> NUL, position |-> L.position, read_position |-> L.read_position]
  ELSE [ch |-> text[L.read_position + 1],
        position |-> L.read_position,
        read_position |-> L.read_position + 1]

\* Lexer._read_char
ReadChar(text, L) ==
  [ch |-> IF L.read_position >= Len(text) THEN NUL ELSE text[L.read_position + 1],
   position |-> L.read_position,
   read_position |-> L.read_position + 1]

\* A mutation of _peek_char: it looks at the current character.
PeekCharCurrent(text, L) == L.ch

\* Lexer._peek_char
PeekChar(text, L) ==
  IF L.read_position >= Len(text) THEN NUL ELSE text[L.read_position + 1]

\* input_text[a:b] for 0 <= a, 0 <= b
Slice(text, a, b) == SubSeq(text, a + 1, IF b < Len(text) THEN b ELSE Len(text))

\* Lexer._skip_whitespace
RECURSIVE SkipWhitespace(_, _)
SkipWhitespace(text, L) ==
  IF IsWhitespace(L.ch) THEN SkipWhitespace(text, ReadChar(text, L)) ELSE L

\* The loop of _read_identifier
RECURSIVE IdentifierLoop(_, _)
IdentifierLoop(text, L) ==
  IF IsAlpha(L.ch) \/ L.ch = Ord("_") \/ IsDigit(L.ch)
  THEN IdentifierLoop(text, ReadChar(text, L))
  ELSE L

\* Lexer._read_identifier: the state it leaves and the text it returns
ReadIdentifier(text, L) ==
  LET E == IdentifierLoop(text, L) IN
    [lex |-> E, literal |-> Slice(text, L.position, E.position)]

\* The loop of _read_number
RECURSIVE NumberLoop(_, _)
NumberLoop(text, L) ==
  IF IsDigit(L.ch) THEN NumberLoop(text, ReadChar(text, L)) ELSE L

\* Lexer._read_number
ReadNumber(text, L) ==
  LET E == NumberLoop(text, L) IN
    [lex |-> E, literal |-> Slice(text, L.position, E.position)]

\* The characters that _read_string consumes in pairs after a backslash.
StringEscapes == {QUOTE, BACKSLASH, Ord("n"), Ord("t"), Ord("r")}

\* The loop of _read_string
RECURSIVE StringLoop(_, _)
StringLoop(text, L) ==
  IF L.ch # QUOTE /\ L.ch # NUL
  THEN IF L.ch = BACKSLASH /\ PeekChar(text, L) \in StringEscapes
       THEN StringLoop(text, ReadChar(text, ReadChar(text, L)))
       ELSE StringLoop(text, ReadChar(text, L))
  ELSE L

\* Lexer._read_string: the state it leaves, the raw text between the quotes,
\* and the decoded text it returns (ok = FALSE: the decoding raises, after the
\* state has been changed).
ReadString(text, L) ==
  LET S == ReadChar(text, L)
      E == StringLoop(text, S)
      raw == Slice(text, S.position, E.position)
      dec == UnicodeEscapeDecode(Utf8Encode(raw), 1)
  IN [lex |-> ReadChar(text, E), raw |-> raw, ok |-> dec.ok, literal |-> dec.out]

\* ------------------------------------------------------------------------
\* lexer.py: next_token
\* ------------------------------------------------------------------------

\* What one call hands back: the state it leaves, the token it returns, and
\* whether an exception escaped instead (then no token is returned).
Returned(L, t) == [lex |-> L, tok |-> t, raised |-> FALSE]
Raised(L) == [lex |-> L, tok |-> NoToken, raised |-> TRUE]

\* A mutation of the one-character branches: the character is not consumed.
SingleCharStuck(text, L, type) == Returned(L, Token(type, <<L.ch>>, L.position))

\* tok = Token(type, self.ch, self.position); self._read_char(); return tok
SingleChar(text, L, type) ==
  Returned(ReadChar(text, L), Token(type, <<L.ch>>, L.position))

\* The branches for "=" and "!": one character of lookahead decides between
\* the two-character operator and the one-character one.
Lookahead(text, L, two, one) ==
  IF PeekChar(text, L) = Ord("=")
  THEN LET L1 == ReadChar(text, L) IN
         Returned(ReadChar(text, L1), Token(two, <<L.ch, L1.ch>>, L1.position))
  ELSE SingleChar(text, L, one)

\* The one-character operators and punctuation of the elif chain.
Punctuation ==
  (Ord(";") :> TokenType["SEMICOLON"]) @@ (Ord(",") :> TokenType["COMMA"]) @@
  (Ord(":") :> TokenType["COLON"]) @@ (Ord("+") :> TokenType["PLUS"]) @@
  (Ord("-") :> TokenType["MINUS"]) @@ (Ord("/") :> TokenType["SLASH"]) @@
  (Ord("*") :> TokenType["ASTERISK"]) @@ (Ord("<") :> TokenType["LT"]) @@
  (Ord(">") :> TokenType["GT"]) @@ (Ord("(") :> TokenType["LPAREN"]) @@
  (Ord(")") :> TokenType["RPAREN"]) @@ (Ord("{") :> TokenType["LBRACE"]) @@
  (Ord("}") :> TokenType["RBRACE"]) @@ (Ord("[") :> TokenType["LBRACKET"]) @@
  (Ord("]") :> TokenType["RBRACKET"])

\* elif self.ch == '"'
StringToken(text, L) ==
  LET r == ReadString(text, L) IN
    IF r.ok
    THEN Returned(r.lex, Token(TokenType["STRING"], r.literal, r.lex.position))
    ELSE Raised(r.lex)

\* A mutation of the end-of-input branch: it reads past the end once more.
EndOfInputAdvancing(text, L) ==
  Returned(ReadChar(text, L), Token(TokenType["EOF"], <<>>, L.position))

\* elif self.ch == "\0"
EndOfInput(text, L) == Returned(L, Token(TokenType["EOF"], <<>>, L.position))

\* The else branch: identifier or keyword, integer, illegal character.
Fallback(text, L) ==
  IF IsAlpha(L.ch) \/ L.ch = Ord("_")
  THEN LET r == ReadIdentifier(text, L) IN
         Returned(r.lex, Token(lookup_ident(r.literal), r.literal, r.lex.position))
  ELSE IF IsDigit(L.ch)
  THEN LET r == ReadNumber(text, L) IN
         Returned(r.lex, Token(TokenType["INT"], r.literal, r.lex.position))
  ELSE SingleChar(text, L, TokenType["ILLEGAL"])

\* Lexer.next_token on the state L0
next_token(text, L0) ==
  LET L == SkipWhitespace(text, L0) IN
    IF L.ch = Ord("=") THEN Lookahead(text, L, TokenType["EQ"], TokenType["ASSIGN"])
    ELSE IF L.ch = Ord("!") THEN Lookahead(text, L, TokenType["NOT_EQ"], TokenType["BANG"])
    ELSE IF L.ch \in DOMAIN Punctuation THEN SingleChar(text, L, Punctuation[L.ch])
    ELSE IF L.ch = QUOTE THEN StringToken(text, L)
    ELSE IF L.ch = NUL THEN EndOfInput(text, L)
    ELSE Fallback(text, L)

\* Lexer.__init__
NewLexer(text) == ReadChar(text, [ch |-> <<>>, position |-> 0, read_position |-> 0])

\* ------------------------------------------------------------------------
\* Inputs
\* ------------------------------------------------------------------------

\* The longest enumerated input.
MaxLen == 3

\* How many calls the caller makes beyond one per input character.
ExtraCalls == 3

\* One character of each class the scanner tells apart: whitespace, the two
\* lookahead operators, a punctuation character, the quote, the backslash, a
\* letter that is an escape of the scanner (n), a letter that is an escape of
\* the codec only (f), a letter that starts a hexadecimal escape (x), a digit,
\* a character no branch knows, and the sentinel itself.
Alphabet ==
  {Ord(" "), Ord("="), Ord("!"), Ord(";"), QUOTE, BACKSLASH,
   Ord("n"), Ord("f"), Ord("x"), Ord("1"), Ord("@"), NUL}

BoundedInputs == UNION {[1..n -> Alphabet] : n \in 0..MaxLen}

\* The inputs the documentation names, every keyword, and near misses.
Examples ==
  { Text(<<"l","e","t"," ","f","i","v","e"," ","="," ","5",";">>),
    Text(<<"1","0"," ","=","="," ","1","0",";">>),
    Text(<<"1","0"," ","!","="," ","9",";">>),
    Text(<<"@">>),
    Text(<<"f","u","n","c">>),
    Text(<<"l","e","t","x">>),
    Text(<<"x","l","e","t">>),
    Text(<<"L","e","t">>),
    Text(<<"_","i","f">>),
    Text(<<"i","f","1">>),
    Text(<<"\"","a","\\","n","b","\"">>),
    Text(<<"\"","\\","\"","\"",";">>),
    Text(<<"\"","\\","\\","\"",";">>),
    Text(<<"\"","\\","1","0","1","\"">>),
    Text(<<"\"","\\","x","4","1","\"">>),
    Text(<<"\"","\\","u","0","0","4","1","\"">>),
    Text(<<"\"","\\","@","\"","=">>),
    Text(<<"f","n"," ","f","n","1"," ","F","n">>),
    <<TAB, Ord("="), NEWLINE, CR, Ord("!")>> }
    \cup DOMAIN KEYWORDS

Inputs == BoundedInputs \cup Examples

\* ------------------------------------------------------------------------
\* The state machine: one Lexer and the caller that keeps calling next_token
\* ------------------------------------------------------------------------

VARIABLES
  input_text,      \* Lexer.input_text
  ch,              \* Lexer.ch
  position,        \* Lexer.position, the cursor
  read_position,   \* Lexer.read_position, the lookahead cursor
  tok,             \* the token the last call returned (NoToken: none)
  raised,          \* TRUE when an exception escaped the last call
  tokens           \* what every call so far handed back, in order

vars == <<input_text, ch, position, read_position, tok, raised, tokens>>

\* The scanner state as the helpers take it.
Lex == [ch |-> ch, position |-> position, read_position |-> read_position]

calls == Len(tokens)

Init ==
  /\ input_text \in Inputs
  /\ ch = NewLexer(input_text).ch
  /\ position = NewLexer(input_text).position
  /\ read_position = NewLexer(input_text).read_position
  /\ tok = NoToken
  /\ raised = FALSE
  /\ tokens = <<>>

\* One call of next_token() by the caller.
NextToken ==
  /\ calls < Len(input_text) + ExtraCalls
  /\ LET r == next_token(input_text, Lex) IN
       /\ ch' = r.lex.ch
       /\ position' = r.lex.position
       /\ read_position' = r.lex.read_position
       /\ tok' = r.tok
       /\ raised' = r.raised
       /\ tokens' = Append(tokens, r.tok)
  /\ UNCHANGED input_text

Next == NextToken

Spec == Init /\ [][Next]_vars

\* ------------------------------------------------------------------------
\* What the properties speak about
\* ------------------------------------------------------------------------

\* input[i] (0-based), the sentinel from the end of the input on.
CharAt(i) == IF i < Len(input_text) THEN input_text[i + 1] ELSE NUL

\* The index of the current character after whitespace skipping: the first
\* index from the cursor on that holds no space, tab, newline or carriage return.
TokenStart ==
  CHOOSE s \in position..(Len(input_text) + 2) :
    /\ ~IsWhitespace(CharAt(s))
    /\ \A j \in position..(s - 1) : IsWhitespace(CharAt(j))

IsWordChar(c) == IsAlpha(c) \/ c = Ord("_") \/ IsDigit(c)

\* The end (exclusive) of the maximal run of letters, underscores and digits
\* that starts at index s.
RunEnd(s) ==
  CHOOSE e \in s..Len(input_text) :
    /\ ~IsWordChar(CharAt(e))
    /\ \A j \in s..(e - 1) : IsWordChar(CharAt(j))

\* input[a:b]
Between(a, b) == [i \in 1..(b - a) |-> input_text[a + i]]

\* After the step the scanner stands at index p: the cursor is p, the current
\* character is input[p] and the lookahead cursor is p + 1, which is all that
\* the following calls read.
StandsAtNext(p) == position' = p /\ ch' = CharAt(p) /\ read_position' = p + 1

IsEof(t) == t.type = "EOF"

\* ------------------------------------------------------------------------
\* Properties
\* ------------------------------------------------------------------------

\* C1: no call of next_token() raises: every call returns a token, whatever the
\* input (an unterminated string, a string whose raw text ends in a backslash,
\* a backslash before a character outside the five escapes).
C1_NeverRaises == raised = FALSE

\* C2: in every state reachable by next_token() calls the cursor is at most
\* len(input), also when the input ends inside an unterminated string.
C2_CursorWithinInput == position <= Len(input_text)

\* C3: every call that returns a token other than EOF moves the cursor forward
\* by at least one character, and by the call number len(input) + 1 an EOF
\* token has been returned.
C3_EofWithinLenPlusOneCalls ==
  [][NextToken =>
       /\ (~raised' /\ ~IsEof(tok')) => position' >= position + 1
       /\ calls' >= Len(input_text) + 1 => \E i \in 1..calls' : IsEof(tokens'[i])]_vars

\* C3 witness: an input of two or more characters whose first EOF comes at
\* call number len(input) + 1 exactly.
C3_Witness ==
  /\ Len(input_text) >= 2
  /\ calls = Len(input_text) + 1
  /\ IsEof(tok)
  /\ \A i \in 1..(calls - 1) : ~IsEof(tokens[i])

\* C4: once a call has returned EOF, the next call returns EOF again, with an
\* empty literal and the same position, and leaves the current character, the
\* cursor and the lookahead cursor as they were (so every later call does).
C4_EofIdempotent ==
  [][(NextToken /\ IsEof(tok)) =>
       /\ ~raised'
       /\ IsEof(tok') /\ tok'.literal = <<>> /\ tok'.position = tok.position
       /\ ch' = ch /\ position' = position /\ read_position' = read_position]_vars

\* C4 witness: three EOF tokens in a row after a token that was not EOF.
C4_Witness ==
  /\ calls >= 4
  /\ ~IsEof(tokens[calls - 3])
  /\ \A i \in (calls - 2)..calls : IsEof(tokens[i])

\* C5: at "=" (resp. "!") a following "=" gives one EQ (resp. NOT_EQ) token with
\* literal "==" (resp. "!=") and consumes two characters; otherwise the token
\* is ASSIGN (resp. BANG) with the one character as literal and consumes one;
\* either way the scanner then stands at the character after the token.  "==="
\* gives EQ, ASSIGN and "10 == 10;" gives INT, EQ, INT, SEMICOLON, EOF.
C5_Lookahead ==
  [][NextToken =>
       LET s == TokenStart
           c == CharAt(s)
           types == [i \in 1..calls' |-> tokens'[i].type]
       IN
       /\ (s < Len(input_text) /\ c \in {Ord("="), Ord("!")}) =>
            /\ ~raised'
            /\ IF CharAt(s + 1) = Ord("=")
               THEN /\ tok'.type = (IF c = Ord("=") THEN "==" ELSE "!=")
                    /\ tok'.literal = <<c, Ord("=")>>
                    /\ StandsAtNext(s + 2)
               ELSE /\ tok'.type = (IF c = Ord("=") THEN "=" ELSE "!")
                    /\ tok'.literal = <<c>>
                    /\ StandsAtNext(s + 1)
       /\ (input_text = Text(<<"=", "=", "=">>) /\ calls' = 2) => types = <<"==", "=">>
       /\ (input_text = Text(<<"1","0"," ","=","="," ","1","0",";">>) /\ calls' = 5) =>
            types = <<"INT", "==", "INT", ";", "EOF">>]_vars

\* C5 witness: "===" after its second call, EQ then ASSIGN.
C5_Witness ==
  /\ input_text = Text(<<"=", "=", "=">>)
  /\ calls = 2
  /\ tokens[1].type = "==" /\ tokens[1].literal = Text(<<"=", "=">>)
  /\ tok.type = "=" /\ tok.literal = Text(<<"=">>)

\* The five escape pairs of the documentation and what each stands for.
FiveEscapes ==
  (QUOTE :> QUOTE) @@ (BACKSLASH :> BACKSLASH) @@ (Ord("n") :> NEWLINE) @@
  (Ord("t") :> TAB) @@ (Ord("r") :> CR)

\* raw with the five escape pairs replaced, left to right, and every other
\* character kept.
RECURSIVE ReplaceFiveEscapes(_)
ReplaceFiveEscapes(raw) ==
  IF raw = <<>> THEN <<>>
  ELSE IF Head(raw) = BACKSLASH /\ Len(raw) >= 2 /\ raw[2] \in DOMAIN FiveEscapes
  THEN <<FiveEscapes[raw[2]]>> \o ReplaceFiveEscapes(Tail(Tail(raw)))
  ELSE <<Head(raw)>> \o ReplaceFiveEscapes(Tail(raw))

\* C6: the literal of a STRING token is the raw text between the opening quote
\* (at s) and the character the scan stopped at (the one before the cursor
\* after the call), with the five escape pairs replaced and every other
\* character, a backslash before any other character included, unchanged.
C6_StringLiteralFiveEscapes ==
  [][NextToken =>
       LET s == TokenStart
           stop == IF position' - 1 < Len(input_text) THEN position' - 1
                   ELSE Len(input_text)
       IN (CharAt(s) = QUOTE /\ tok'.type = "STRING") =>
            tok'.literal = ReplaceFiveEscapes(Between(s + 1, stop))]_vars

\* The characters the dispatch of next_token knows: operators and punctuation.
OperatorChars ==
  {Ord(c) : c \in {"=", "!", ";", ",", ":", "+", "-", "/", "*", "<", ">",
                   "(", ")", "{", "}", "[", "]"}}

\* C7: at a character that is no operator or punctuation, no double quote, no
\* letter, underscore or digit, with the input not exhausted, the call returns
\* ILLEGAL with that one character as literal, and the scanner then stands
\* one character further.
C7_IllegalCharacter ==
  [][NextToken =>
       LET s == TokenStart
           c == CharAt(s)
       IN (/\ s < Len(input_text)
           /\ c \notin OperatorChars
           /\ c # QUOTE
           /\ ~IsWordChar(c)) =>
            /\ ~raised'
            /\ tok'.type = "ILLEGAL"
            /\ tok'.literal = <<c>>
            /\ StandsAtNext(s + 1)]_vars

\* The seven reserved spellings and the kind of each.
KindOfRun(run) ==
  CASE run = Text(<<"f", "n">>) -> "FUNCTION"
    [] run = Text(<<"l", "e", "t">>) -> "LET"
    [] run = Text(<<"t", "r", "u", "e">>) -> "TRUE"
    [] run = Text(<<"f", "a", "l", "s", "e">>) -> "FALSE"
    [] run = Text(<<"i", "f">>) -> "IF"
    [] run = Text(<<"e", "l", "s", "e">>) -> "ELSE"
    [] run = Text(<<"r", "e", "t", "u", "r", "n">>) -> "RETURN"
    [] OTHER -> "IDENT"

\* C8: at a letter or underscore the token's literal is the whole maximal run
\* of letters, underscores and digits, and its kind is the keyword kind when
\* the run is exactly one of the seven spellings and IDENT for any other run.
C8_KeywordExactness ==
  [][NextToken =>
       LET s == TokenStart
           c == CharAt(s)
           run == Between(s, RunEnd(s))
       IN (s < Len(input_text) /\ (IsAlpha(c) \/ c = Ord("_"))) =>
            /\ ~raised'
            /\ tok'.literal = run
            /\ tok'.type = KindOfRun(run)
            /\ position' = RunEnd(s)]_vars

\* C8 witness: "fn fn1 Fn" scanned as FUNCTION, then IDENT "fn1", then
\* IDENT "Fn".
C8_Witness ==
  /\ calls = 3
  /\ tokens[1].type = "FUNCTION" /\ tokens[1].literal = Text(<<"f", "n">>)
  /\ tokens[2].type = "IDENT" /\ tokens[2].literal = Text(<<"f", "n", "1">>)
  /\ tokens[3].type = "IDENT" /\ tokens[3].literal = Text(<<"F", "n">>)

\* C9: after construction and after every call, the current character is
\* input[cursor], or the sentinel once the cursor is at or past the end, and
\* the lookahead cursor is the cursor plus one.
C9_CurrentCharInvariant ==
  /\ ch = CharAt(position)
  /\ read_position = position + 1

\* C9 witness: after a call, the cursor stands past the end of the input (the
\* sentinel case), behind an unterminated string.
C9_Witness ==
  /\ calls >= 1
  /\ position > Len(input_text)
  /\ ch = NUL

\* C10: an EOF token is returned only with the cursor at the end of the input,
\* every character consumed.
C10_EofOnlyAtEnd == IsEof(tok) => position >= Len(input_text)

====
